---- MODULE Spec2Model ----
(***************************************************************************)
(* Model of Solana-Trading-Bot.py: the STATE dictionary, the Telegram      *)
(* command handlers, buy_with_usdc and the monitor_task polling loop.      *)
(*                                                                         *)
(* Scheduling is asyncio's: one thread, a task runs until it awaits.  An   *)
(* action of this module is the code a task runs between two await points  *)
(* at which shared state is visible to the other task.  Handlers are       *)
(* dispatched one update at a time; the monitor task runs beside them.     *)
(*                                                                         *)
(* Prices are held in cents and percentages in whole percent; the code's   *)
(* float arithmetic on them is computed in IEEE-754 binary64 (round to     *)
(* nearest, ties to even) by the F* operators below.                       *)
(***************************************************************************)
EXTENDS Integers, Sequences, FiniteSets, TLC

(***************************************************************************)
(* Bounds of the model: the inputs the environment may supply.             *)
(***************************************************************************)
\* manual-buy amounts range over 0..MaxManualAmount (whole USDC)
MaxManualAmount == 1

\* current_price values the price feed may return, in cents
FeedPrices == {0, 10000, 10199, 10200, 11000, 15000}

\* price_change_percentage_24h values the feed may return (whole percent)
FeedChanges == {-6, -5, -4}

\* a percentage n * 2^-s; Pct(n) is the whole number n, TinyPct is 2^-50,
\* which /settp 8.881784197001252e-16 sets
Pct(n) == [n |-> n, s |-> 0]
TinyPct == [n |-> 1, s |-> 50]

\* numeric arguments of /setbuy (whole percent) and of /settp
SetBuyArgs == {-5, 5, 6}
SetTpArgs == {Pct(-5), Pct(0), Pct(2), Pct(10), TinyPct}

(***************************************************************************)
(* Program constants.                                                      *)
(***************************************************************************)
DefaultBuyDropPct == 5
DefaultTakeProfitPct == 2
MonitorUsdcAmount == 5

\* Python's None and a present value
None == <<>>
Some(v) == <<v>>
IsNone(o) == o = <<>>
Val(o) == o[1]

Abs(n) == IF n < 0 THEN -n ELSE n

(***************************************************************************)
(* Natural numbers of any size, as little-endian sequences of limbs in     *)
(* base 2^15 with no leading zero limb (TLC's integers are 32 bits wide,   *)
(* a binary64 significand is 53).                                          *)
(***************************************************************************)
Base == 2^15

RECURSIVE BNorm(_)
BNorm(a) ==
    IF a = <<>> THEN <<>>
    ELSE IF a[Len(a)] = 0 THEN BNorm(SubSeq(a, 1, Len(a) - 1))
    ELSE a

RECURSIVE FromNat(_)
FromNat(n) == IF n = 0 THEN <<>> ELSE <<n % Base>> \o FromNat(n \div Base)

RECURSIVE BAddC(_, _, _)
BAddC(a, b, c) ==
    IF a = <<>> /\ b = <<>> THEN (IF c = 0 THEN <<>> ELSE <<c>>)
    ELSE LET x == IF a = <<>> THEN 0 ELSE Head(a)
             y == IF b = <<>> THEN 0 ELSE Head(b)
             s == x + y + c
         IN  <<s % Base>> \o BAddC(IF a = <<>> THEN <<>> ELSE Tail(a),
                                   IF b = <<>> THEN <<>> ELSE Tail(b),
                                   s \div Base)

BAdd(a, b) == BAddC(a, b, 0)

\* a - b for a >= b
RECURSIVE BSubC(_, _, _)
BSubC(a, b, c) ==
    IF a = <<>> THEN <<>>
    ELSE LET y == IF b = <<>> THEN 0 ELSE Head(b)
             d == Head(a) - y - c
         IN  <<IF d < 0 THEN d + Base ELSE d>>
                 \o BSubC(Tail(a), IF b = <<>> THEN <<>> ELSE Tail(b),
                          IF d < 0 THEN 1 ELSE 0)

BSub(a, b) == BNorm(BSubC(a, b, 0))

\* a * k + c for 0 <= k <= Base
RECURSIVE BMulSmall(_, _, _)
BMulSmall(a, k, c) ==
    IF a = <<>> THEN FromNat(c)
    ELSE LET p == Head(a) * k + c
         IN  <<p % Base>> \o BMulSmall(Tail(a), k, p \div Base)

RECURSIVE BMul(_, _)
BMul(a, b) ==
    IF a = <<>> \/ b = <<>> THEN <<>>
    ELSE BNorm(BAdd(BMulSmall(a, Head(b), 0), <<0>> \o BMul(a, Tail(b))))

\* quotient and remainder of a by d, 0 < d <= Base
RECURSIVE BDivSmall(_, _)
BDivSmall(a, d) ==
    IF a = <<>> THEN [q |-> <<>>, r |-> 0]
    ELSE LET hi == BDivSmall(Tail(a), d)
             cur == hi.r * Base + Head(a)
         IN  [q |-> BNorm(<<cur \div d>> \o hi.q), r |-> cur % d]

RECURSIVE BitLenNat(_)
BitLenNat(n) == IF n = 0 THEN 0 ELSE 1 + BitLenNat(n \div 2)

BBitLen(a) == IF a = <<>> THEN 0 ELSE 15 * (Len(a) - 1) + BitLenNat(a[Len(a)])

Zeros(n) == [i \in 1..n |-> 0]

BShl(a, n) ==
    IF a = <<>> THEN <<>>
    ELSE BNorm(Zeros(n \div 15) \o BMulSmall(a, 2^(n % 15), 0))

BShr(a, n) ==
    IF n \div 15 >= Len(a) THEN <<>>
    ELSE BDivSmall(SubSeq(a, n \div 15 + 1, Len(a)), 2^(n % 15)).q

BOdd(a) == a # <<>> /\ a[1] % 2 = 1

\* a < b, both without leading zero limbs
RECURSIVE BLess(_, _)
BLess(a, b) ==
    IF Len(a) # Len(b) THEN Len(a) < Len(b)
    ELSE IF a = <<>> THEN FALSE
    ELSE IF a[Len(a)] # b[Len(b)] THEN a[Len(a)] < b[Len(b)]
    ELSE BLess(SubSeq(a, 1, Len(a) - 1), SubSeq(b, 1, Len(b) - 1))

(***************************************************************************)
(* Non-negative binary64 values: [m, e] stands for m * 2^e with m a        *)
(* 53-bit significand (2^52 <= m < 2^53), or m = 0 for zero.  The values   *)
(* of the model are far from the subnormal and overflow ranges.            *)
(***************************************************************************)
FZero == [m |-> <<>>, e |-> 0]

\* n/d * 2^e rounded to nearest, ties to even (n a big natural, 0 < d <= Base)
FRound(n, d, e) ==
    IF n = <<>> THEN FZero
    ELSE LET want == 55 + BitLenNat(d) - BBitLen(n)
             s == IF want > 0 THEN want ELSE 0
             dv == BDivSmall(BShl(n, s), d)
             k == BBitLen(dv.q) - 53
             t == BShr(dv.q, k - 1)
             m0 == BShr(t, 1)
             sticky == BShl(t, k - 1) # dv.q \/ dv.r # 0
             up == BOdd(t) /\ (sticky \/ BOdd(m0))
             m1 == IF up THEN BAdd(m0, <<1>>) ELSE m0
         IN  IF BBitLen(m1) = 54
             THEN [m |-> BShr(m1, 1), e |-> e - s + k + 1]
             ELSE [m |-> m1, e |-> e - s + k]

\* float(Decimal(str(x))) for the decimal x = n / d
FFromDecimal(n, d) == FRound(FromNat(n), d, 0)

FOne == FFromDecimal(1, 1)

\* x / float(d) for a small whole number d
FDivNat(x, d) == FRound(x.m, d, x.e)

FMin(a, b) == IF a < b THEN a ELSE b

FAdd(x, y) ==
    IF x.m = <<>> THEN y
    ELSE IF y.m = <<>> THEN x
    ELSE LET e == FMin(x.e, y.e)
         IN  FRound(BAdd(BShl(x.m, x.e - e), BShl(y.m, y.e - e)), 1, e)

\* x >= y, both non-negative
FGE(x, y) ==
    IF y.m = <<>> THEN TRUE
    ELSE IF x.m = <<>> THEN FALSE
    ELSE IF x.e # y.e THEN x.e > y.e
    ELSE ~BLess(x.m, y.m)

\* x - y for x >= y
FSub(x, y) ==
    IF y.m = <<>> THEN x
    ELSE LET e == FMin(x.e, y.e)
         IN  FRound(BSub(BShl(x.m, x.e - e), BShl(y.m, y.e - e)), 1, e)

FMul(x, y) == FRound(BMul(x.m, y.m), 1, x.e + y.e)

(***************************************************************************)
(* The program state.                                                      *)
(***************************************************************************)
VARIABLES
    TELEGRAM_TOKEN,     \* whether the environment variable is set
    PRIVATE_KEY_JSON,   \* whether it names an existing keypair file
    PRIVATE_KEY_B58,    \* whether the environment variable is set
    DRY_RUN,
    HAVE_JUPITER_SDK,
    state,              \* the module-level STATE dictionary
    main_pc,            \* main(): "boot", "polling" or "failed"
    monitor,            \* monitor_task: its position and its local snapshot
    handler,            \* the Telegram update being handled, if it is suspended
    last                \* history: what the last step did

config == <<TELEGRAM_TOKEN, PRIVATE_KEY_JSON, PRIVATE_KEY_B58, DRY_RUN, HAVE_JUPITER_SDK>>
vars == <<TELEGRAM_TOKEN, PRIVATE_KEY_JSON, PRIVATE_KEY_B58, DRY_RUN, HAVE_JUPITER_SDK,
          state, main_pc, monitor, handler, last>>

\* context.args of a command: no argument, a non-numeric one, or a number
Arg(kind, v) == [kind |-> kind, v |-> v]
NoArgs == Arg("none", 0)
BadArg == Arg("text", 0)
Num(v) == Arg("num", v)

\* the price feed's answer: an HTTP error, an empty list, or one market record
FeedResponses ==
    {[kind |-> k, current_price |-> None, change |-> None] : k \in {"http_error", "empty"}}
        \cup [kind : {"ok"},
              current_price : {None} \cup {Some(p) : p \in FeedPrices},
              change : {None} \cup {Some(c) : c \in FeedChanges}]

\* the answers of the quote endpoint and of the swap-build endpoint
ExtOutcomes ==
    [quote : {"http_error", "no_data", "ok"},
     swap : {"http_error", "no_tx", "bad_b64", "tx"}]

\* the answers a step consumes: none matter when buy_with_usdc is not called
\* or returns at the dry-run gate
NoExt == [quote |-> "ok", swap |-> "tx"]
ExtFor(called) == IF called /\ ~DRY_RUN THEN ExtOutcomes ELSE {NoExt}

STATE0 ==
    [buy_drop_pct |-> DefaultBuyDropPct,
     take_profit_pct |-> Pct(DefaultTakeProfitPct),
     holding |-> FALSE,
     last_buy_price |-> None,
     position_amount_sol |-> 0]

Position(S) == <<S.holding, S.last_buy_price, S.position_amount_sol>>

\* one call of buy_with_usdc as the history records it
Exec(caller, usdc, steps, result) ==
    [direction |-> "BUY", caller |-> caller, usdc |-> usdc, steps |-> steps,
     result |-> result]

Event(op, snap, execs, opened, sell) ==
    [op |-> op, feed |-> None, snap |-> snap, execs |-> execs, opened |-> opened,
     sell_issued |-> sell]

\* a loop iteration, with the price feed's answer it consumed
TickEvent(resp, snap, execs, opened, sell) ==
    [op |-> "tick", feed |-> Some(resp), snap |-> snap, execs |-> execs,
     opened |-> opened, sell_issued |-> sell]

MonitorIdle(pc) == [pc |-> pc, snap |-> None]
HandlerIdle == [pc |-> "idle", usdc |-> 0]

(***************************************************************************)
(* load_keypair: which credential is used, or "raise".                     *)
(***************************************************************************)
load_keypair ==
    IF PRIVATE_KEY_B58 THEN "b58"
    ELSE IF PRIVATE_KEY_JSON THEN "json"
    ELSE "raise"

(***************************************************************************)
(* fetch_sol_24h_change_and_price: None when it raises, else the pair.     *)
(***************************************************************************)
\* mutant: "or 0.0" is applied to current_price as well
fetch_null_price_as_zero(resp) ==
    IF resp.kind # "ok" THEN None
    ELSE Some([price |-> IF IsNone(resp.current_price) THEN 0
                         ELSE Val(resp.current_price),
               pct24 |-> IF IsNone(resp.change) THEN 0 ELSE Val(resp.change)])

fetch_sol_24h_change_and_price(resp) ==
    IF resp.kind # "ok" THEN None
    ELSE IF IsNone(resp.current_price) THEN None
    ELSE Some([price |-> Val(resp.current_price),
               pct24 |-> IF IsNone(resp.change) THEN 0 ELSE Val(resp.change)])

(***************************************************************************)
(* buy_with_usdc up to its first suspension: the external calls it makes   *)
(* in order, and whether it returns, raises or awaits the SDK swap.        *)
(***************************************************************************)
\* mutant: a failed swap-build request is sent a second time
buy_with_usdc_retry_swap(usdc_amount, ext) ==
    LET quote == <<"get_jupiter_quote">>
    IN  IF ext.quote # "ok"
        THEN [steps |-> quote, outcome |-> "raise"]
        ELSE IF HAVE_JUPITER_SDK
        THEN [steps |-> quote \o <<"swap_from_quote">>, outcome |-> "await"]
        ELSE IF ext.swap = "http_error"
        THEN [steps |-> quote \o <<"request_jupiter_swap", "request_jupiter_swap">>,
              outcome |-> "raise"]
        ELSE IF ext.swap = "no_tx"
        THEN [steps |-> quote \o <<"request_jupiter_swap">>, outcome |-> "raise"]
        ELSE IF ext.swap = "bad_b64"
        THEN [steps |-> quote \o <<"request_jupiter_swap", "b64decode">>,
              outcome |-> "raise"]
        ELSE [steps |-> quote \o <<"request_jupiter_swap", "b64decode", "from_bytes">>,
              outcome |-> "raise"]

\* mutant: the manual path signs and sends instead of raising at line 157
buy_with_usdc_signed(usdc_amount, ext) ==
    LET quote == <<"get_jupiter_quote">>
    IN  IF ext.quote # "ok"
        THEN [steps |-> quote, outcome |-> "raise"]
        ELSE IF HAVE_JUPITER_SDK
        THEN [steps |-> quote \o <<"swap_from_quote">>, outcome |-> "await"]
        ELSE IF ext.swap \in {"http_error", "no_tx"}
        THEN [steps |-> quote \o <<"request_jupiter_swap">>, outcome |-> "raise"]
        ELSE IF ext.swap = "bad_b64"
        THEN [steps |-> quote \o <<"request_jupiter_swap", "b64decode">>,
              outcome |-> "raise"]
        ELSE [steps |-> quote \o <<"request_jupiter_swap", "b64decode", "from_bytes">>,
              outcome |-> "return"]

buy_with_usdc_ungated(usdc_amount, ext) ==
    LET quote == <<"get_jupiter_quote">>
    IN  IF ext.quote # "ok"
        THEN [steps |-> quote, outcome |-> "raise"]
        ELSE IF HAVE_JUPITER_SDK
        THEN [steps |-> quote \o <<"swap_from_quote">>,
              outcome |-> "await"]
        ELSE IF ext.swap \in {"http_error", "no_tx"}
        THEN [steps |-> quote \o <<"request_jupiter_swap">>,
              outcome |-> "raise"]
        ELSE IF ext.swap = "bad_b64"
        THEN [steps |-> quote \o <<"request_jupiter_swap", "b64decode">>,
              outcome |-> "raise"]
        ELSE [steps |-> quote \o <<"request_jupiter_swap", "b64decode", "from_bytes">>,
              outcome |-> "raise"]

\* mutant: the dry-run gate of line 113 is missing
buy_with_usdc_no_gate(usdc_amount, ext) ==
    buy_with_usdc_ungated(usdc_amount, ext)

buy_with_usdc(usdc_amount, ext) ==
    IF DRY_RUN
    THEN [steps |-> <<>>, outcome |-> "return"]
    ELSE buy_with_usdc_ungated(usdc_amount, ext)

\* the result the caller sees
BuyResult(b) ==
    IF b.outcome = "raise" THEN "Failed"
    ELSE IF b.outcome = "await" THEN "Pending"
    ELSE IF DRY_RUN THEN "Simulated"
    ELSE "Confirmed"

Success == {"Simulated", "Confirmed"}

(***************************************************************************)
(* monitor_task's decisions.                                               *)
(***************************************************************************)
\* mutant: the loop does not look at holding before it buys
BuyCondition_no_holding(S, pct24) ==
    pct24 <= -Abs(S.buy_drop_pct)

\* mutant: the threshold's sign is lost
BuyCondition_sign(S, pct24) ==
    (~S.holding) /\ pct24 <= Abs(S.buy_drop_pct)

BuyCondition(S, pct24) ==
    (~S.holding) /\ pct24 <= -Abs(S.buy_drop_pct)

AfterBuy(S, price) ==
    [S EXCEPT !.holding = TRUE, !.last_buy_price = Some(price),
              !.position_amount_sol = 0]

\* truth value of STATE["last_buy_price"]: None and 0.0 are false
Truthy(o) == ~IsNone(o) /\ Val(o) # 0

\* STATE["last_buy_price"] * (1.0 + STATE["take_profit_pct"] / 100.0)
Target(last_buy_price, take_profit_pct) ==
    LET tp == FRound(FromNat(Abs(take_profit_pct.n)), 1, -take_profit_pct.s)
        frac == FDivNat(tp, 100)
        factor == IF take_profit_pct.n >= 0 THEN FAdd(FOne, frac) ELSE FSub(FOne, frac)
    IN  FMul(FFromDecimal(last_buy_price, 100), factor)

\* price >= target, in binary64
PriceReaches(price, last_buy_price, take_profit_pct) ==
    FGE(FFromDecimal(price, 100), Target(last_buy_price, take_profit_pct))

\* PriceReaches over the values of the model, computed once
TakeProfitValues == SetTpArgs \cup {Pct(DefaultTakeProfitPct)}
PriceReachesTable ==
    [p \in FeedPrices, l \in FeedPrices, t \in TakeProfitValues |->
        PriceReaches(p, l, t)]

TakeProfitReached(S, price) ==
    /\ S.holding
    /\ Truthy(S.last_buy_price)
    /\ PriceReachesTable[price, Val(S.last_buy_price), S.take_profit_pct]

\* mutant: the sell branch forgets to clear last_buy_price
AfterSell_keep_price(S) ==
    [S EXCEPT !.holding = FALSE, !.position_amount_sol = 0]

AfterSell(S) ==
    [S EXCEPT !.holding = FALSE, !.last_buy_price = None,
              !.position_amount_sol = 0]

CheckTakeProfit(S, price) ==
    IF TakeProfitReached(S, price) THEN AfterSell(S) ELSE S

(***************************************************************************)
(* Init: the module has been imported, main() has not run yet.             *)
(***************************************************************************)
Init ==
    /\ TELEGRAM_TOKEN \in BOOLEAN
    /\ PRIVATE_KEY_JSON \in BOOLEAN
    /\ PRIVATE_KEY_B58 \in BOOLEAN
    /\ DRY_RUN \in BOOLEAN
    /\ HAVE_JUPITER_SDK \in BOOLEAN
    /\ state = STATE0
    /\ main_pc = "boot"
    /\ monitor = MonitorIdle("none")
    /\ handler = HandlerIdle
    /\ last = Event("import", None, <<>>, FALSE, FALSE)

(***************************************************************************)
(* main: without a token it raises; else it creates the monitor task and   *)
(* starts polling for updates.                                             *)
(***************************************************************************)
main ==
    /\ main_pc = "boot"
    /\ IF TELEGRAM_TOKEN
       THEN main_pc' = "polling" /\ monitor' = MonitorIdle("start")
       ELSE main_pc' = "failed" /\ monitor' = monitor
    /\ last' = Event("main", None, <<>>, FALSE, FALSE)
    /\ UNCHANGED <<config, state, handler>>

\* an update can be dispatched: polling runs and no handler is suspended
CanHandle == main_pc = "polling" /\ handler.pc = "idle"

start_cmd ==
    /\ CanHandle
    /\ last' = Event("start", None, <<>>, FALSE, FALSE)
    /\ UNCHANGED <<config, state, main_pc, monitor, handler>>

status_cmd ==
    /\ CanHandle
    /\ last' = Event("status", None, <<>>, FALSE, FALSE)
    /\ UNCHANGED <<config, state, main_pc, monitor, handler>>

\* float(context.args[0]) succeeds on a number only
setbuy_cmd ==
    /\ CanHandle
    /\ \E a \in {NoArgs, BadArg} \cup {Num(v) : v \in SetBuyArgs} :
          state' = IF a.kind = "num" THEN [state EXCEPT !.buy_drop_pct = a.v] ELSE state
    /\ last' = Event("setbuy", None, <<>>, FALSE, FALSE)
    /\ UNCHANGED <<config, main_pc, monitor, handler>>

settp_cmd ==
    /\ CanHandle
    /\ \E a \in {Arg(k, Pct(0)) : k \in {"none", "text"}} \cup {Num(v) : v \in SetTpArgs} :
          state' = IF a.kind = "num" THEN [state EXCEPT !.take_profit_pct = a.v] ELSE state
    /\ last' = Event("settp", None, <<>>, FALSE, FALSE)
    /\ UNCHANGED <<config, main_pc, monitor, handler>>

(***************************************************************************)
(* manualbuy_cmd up to the end of the handler or to its suspension in the  *)
(* SDK swap.  It never touches STATE.                                      *)
(***************************************************************************)
manualbuy_cmd ==
    /\ CanHandle
    /\ \E a \in {NoArgs, BadArg} \cup {Num(v) : v \in 0..MaxManualAmount} :
          IF a.kind # "num" \/ load_keypair = "raise"
          THEN /\ handler' = handler
               /\ last' = Event("manualbuy", None, <<>>, FALSE, FALSE)
          ELSE \E ext \in ExtFor(TRUE) :
               LET b == buy_with_usdc(a.v, ext)
               IN  /\ handler' = IF b.outcome = "await"
                                 THEN [pc |-> "swap", usdc |-> a.v]
                                 ELSE HandlerIdle
                   /\ last' = Event("manualbuy", None,
                                    <<Exec("manual", a.v, b.steps, BuyResult(b))>>,
                                    FALSE, FALSE)
    /\ UNCHANGED <<config, state, main_pc, monitor>>

\* the SDK swap awaited by manualbuy_cmd returns or raises
manualbuy_resume ==
    /\ handler.pc = "swap"
    /\ \E ok \in BOOLEAN :
          last' = Event("manualbuy_resume", None,
                        <<Exec("manual", handler.usdc, <<>>,
                               IF ok THEN "Confirmed" ELSE "Failed")>>,
                        FALSE, FALSE)
    /\ handler' = HandlerIdle
    /\ UNCHANGED <<config, state, main_pc, monitor>>

\* manualsell_cmd only replies
manualsell_cmd ==
    /\ CanHandle
    /\ last' = Event("manualsell", None, <<>>, FALSE, FALSE)
    /\ UNCHANGED <<config, state, main_pc, monitor, handler>>

(***************************************************************************)
(* monitor_task.                                                           *)
(***************************************************************************)
monitor_start ==
    /\ monitor.pc = "start"
    /\ monitor' = MonitorIdle(IF load_keypair = "raise" THEN "dead" ELSE "ready")
    /\ last' = Event("monitor_start", None, <<>>, FALSE, FALSE)
    /\ UNCHANGED <<config, state, main_pc, handler>>

\* mutant: an exception in the loop body ends the task
monitor_except_fatal == "dead"

\* except Exception (line 235): logged, the loop goes on to the sleep
monitor_except == "sleep"

\* one iteration of the loop, from the fetch to the sleep or to the
\* suspension in the SDK swap
monitor_tick ==
    /\ monitor.pc = "ready"
    /\ \E resp \in FeedResponses :
          LET snap == fetch_sol_24h_change_and_price(resp)
          IN  IF IsNone(snap)
              THEN /\ state' = state
                   /\ monitor' = MonitorIdle(monitor_except)
                   /\ last' = TickEvent(resp, None, <<>>, FALSE, FALSE)
              ELSE \E ext \in ExtFor(BuyCondition(state, Val(snap).pct24)) :
                   LET price == Val(snap).price
                       pct24 == Val(snap).pct24
                       buy == BuyCondition(state, pct24)
                       b == buy_with_usdc(MonitorUsdcAmount, ext)
                       execs == IF buy
                                THEN <<Exec("monitor", MonitorUsdcAmount, b.steps,
                                            BuyResult(b))>>
                                ELSE <<>>
                       opened == buy /\ b.outcome = "return"
                       S1 == IF opened THEN AfterBuy(state, price) ELSE state
                   IN  IF buy /\ b.outcome = "await"
                       THEN /\ state' = state
                            /\ monitor' = [pc |-> "swap", snap |-> snap]
                            /\ last' = TickEvent(resp, snap, execs, FALSE, FALSE)
                       ELSE /\ state' = CheckTakeProfit(S1, price)
                            /\ monitor' = MonitorIdle("sleep")
                            /\ last' = TickEvent(resp, snap, execs, opened,
                                                 TakeProfitReached(S1, price))
    /\ UNCHANGED <<config, main_pc, handler>>

\* the SDK swap awaited by the loop returns or raises; the iteration goes on
\* to the take-profit check and the sleep
monitor_resume ==
    /\ monitor.pc = "swap"
    /\ \E ok \in BOOLEAN :
          LET price == Val(monitor.snap).price
              S1 == IF ok THEN AfterBuy(state, price) ELSE state
          IN  /\ state' = CheckTakeProfit(S1, price)
              /\ last' = Event("tick_resume", monitor.snap,
                               <<Exec("monitor", MonitorUsdcAmount, <<>>,
                                      IF ok THEN "Confirmed" ELSE "Failed")>>,
                               ok, TakeProfitReached(S1, price))
    /\ monitor' = MonitorIdle("sleep")
    /\ UNCHANGED <<config, main_pc, handler>>

\* asyncio.sleep(60) is over
monitor_wake ==
    /\ monitor.pc = "sleep"
    /\ monitor' = MonitorIdle("ready")
    /\ last' = Event("wake", None, <<>>, FALSE, FALSE)
    /\ UNCHANGED <<config, state, main_pc, handler>>

Next ==
    \/ main
    \/ start_cmd
    \/ setbuy_cmd
    \/ settp_cmd
    \/ status_cmd
    \/ manualbuy_cmd
    \/ manualbuy_resume
    \/ manualsell_cmd
    \/ monitor_start
    \/ monitor_tick
    \/ monitor_resume
    \/ monitor_wake

Spec == Init /\ [][Next]_vars

(***************************************************************************)
(* Vocabulary of the properties.                                           *)
(***************************************************************************)
StepsOf(e) == {e.steps[i] : i \in DOMAIN e.steps}

\* the swap-build request, the SDK swap, and deserialisation/signing
SignerSteps == {"request_jupiter_swap", "swap_from_quote", "b64decode", "from_bytes"}

\* the step recorded in l ran an execution of direction dir that ended in r
ExecEnded(l, dir, rs) ==
    \E i \in DOMAIN l.execs : l.execs[i].direction = dir /\ l.execs[i].result \in rs

IsTick(l) == l.op = "tick" /\ ~IsNone(l.snap)

\* price >= entry * (1 + tp/100) in exact arithmetic (prices in cents, tp a
\* percentage n * 2^-s, whole when negative)
ExactReached(price, entry, tp) ==
    IF tp.n < 0
    THEN price * 100 >= entry * (100 + tp.n)
    ELSE ~BLess(BShl(FromNat(price * 100), tp.s),
                BAdd(BShl(FromNat(entry * 100), tp.s), FromNat(entry * tp.n)))

(***************************************************************************)
(* C1: with DRY_RUN true, no call of buy_with_usdc, from the monitor or    *)
(* from /manualbuy and for any amount, reaches the swap-build request, the *)
(* SDK swap or the deserialisation/signing step.                           *)
(***************************************************************************)
C1_DryRunNeverReachesSigner ==
    DRY_RUN =>
        \A i \in DOMAIN last.execs : StepsOf(last.execs[i]) \cap SignerSteps = {}

\* a manual buy of the largest amount has run in dry-run mode and was simulated
C1_Witness ==
    /\ DRY_RUN
    /\ last.op = "manualbuy"
    /\ last.execs # <<>>
    /\ last.execs[1].usdc = MaxManualAmount
    /\ last.execs[1].result = "Simulated"

(***************************************************************************)
(* C2: a sell issued in state Holding that has not succeeded leaves        *)
(* holding true, and a failed buy leaves the whole Position unchanged.     *)
(***************************************************************************)
C2_FailedTradeKeepsPosition ==
    [][/\ (state.holding /\ last'.sell_issued /\ ~ExecEnded(last', "SELL", Success))
              => state'.holding
       /\ ExecEnded(last', "BUY", {"Failed"}) => Position(state') = Position(state)
      ]_vars

(***************************************************************************)
(* C3: every step that changes Position runs, in that step, a successful   *)
(* execution of the corresponding BUY (opening) or SELL (closing).         *)
(***************************************************************************)
C3_PositionChangesOnlyAfterSuccess ==
    [][Position(state') # Position(state) =>
          IF state'.holding
          THEN ExecEnded(last', "BUY", Success)
          ELSE ExecEnded(last', "SELL", Success)
      ]_vars

(***************************************************************************)
(* C4: at a monitor tick in state Holding (entry price positive), the      *)
(* position is sold if and only if price >= entry * (1 + tp/100).          *)
(***************************************************************************)
C4_SellIffTargetReached ==
    [][(IsTick(last') /\ state.holding /\ Truthy(state.last_buy_price)) =>
          (last'.sell_issued <=>
              ExactReached(Val(last'.snap).price, Val(state.last_buy_price),
                           state.take_profit_pct))
      ]_vars

(***************************************************************************)
(* C5: a monitor tick in state Flat whose snapshot has                     *)
(* change_24h_pct > -buy_drop_pct does not call buy_with_usdc, whatever    *)
(* value buy_drop_pct holds.                                               *)
(***************************************************************************)
C5_NoBuyAboveThreshold ==
    [][(IsTick(last') /\ ~state.holding
            /\ Val(last'.snap).pct24 > -state.buy_drop_pct) =>
          last'.execs = <<>>
      ]_vars

\* such a tick has run: Flat before and after, change above the threshold
C5_Witness ==
    /\ IsTick(last)
    /\ ~state.holding /\ ~last.opened /\ ~last.sell_issued
    /\ Val(last.snap).pct24 > -state.buy_drop_pct
    /\ state.buy_drop_pct # DefaultBuyDropPct
    /\ last.execs = <<>>

(***************************************************************************)
(* C6: a monitor tick in state Flat whose snapshot has                     *)
(* change_24h_pct <= -buy_drop_pct, for the value last set by /setbuy,     *)
(* issues a BUY in that tick.                                              *)
(***************************************************************************)
C6_BuyAtOrBelowThreshold ==
    [][(IsTick(last') /\ ~state.holding
            /\ Val(last'.snap).pct24 <= -state.buy_drop_pct) =>
          \E i \in DOMAIN last'.execs :
              last'.execs[i].direction = "BUY" /\ last'.execs[i].caller = "monitor"
      ]_vars

(***************************************************************************)
(* C7: after a monitor tick whose buy returned Confirmed or Simulated,     *)
(* holding is true and last_buy_price is the price of the snapshot that    *)
(* triggered the buy.                                                      *)
(***************************************************************************)
C7_BuySetsEntryPrice ==
    (last.op \in {"tick", "tick_resume"} /\ ExecEnded(last, "BUY", Success)) =>
        state.holding /\ state.last_buy_price = Some(Val(last.snap).price)

(***************************************************************************)
(* C8: in every reachable state last_buy_price is set (not None) if and    *)
(* only if holding is true.                                                *)
(***************************************************************************)
C8_EntryPriceIffHolding ==
    (~IsNone(state.last_buy_price)) <=> state.holding

\* a tick has closed a position opened by an earlier tick
C8_Witness ==
    /\ IsTick(last)
    /\ last.sell_issued /\ ~last.opened
    /\ ~state.holding /\ IsNone(state.last_buy_price)

(***************************************************************************)
(* C9: at most one swap execution is in flight: the monitor's and the      *)
(* manual buy's buy_with_usdc are never both between start and return.     *)
(***************************************************************************)
C9_AtMostOneInFlight ==
    ~(monitor.pc = "swap" /\ handler.pc = "swap")

(***************************************************************************)
(* C10: a manual buy that returns Confirmed or Simulated in state Flat     *)
(* leaves the engine Holding with the entry price set, and a successful    *)
(* manual sell in state Holding leaves it Flat with the entry cleared.     *)
(***************************************************************************)
C10_ManualOverridesTransition ==
    [][/\ (last'.op \in {"manualbuy", "manualbuy_resume"}
              /\ ExecEnded(last', "BUY", Success) /\ ~state.holding) =>
            (state'.holding /\ ~IsNone(state'.last_buy_price))
       /\ (last'.op = "manualsell" /\ ExecEnded(last', "SELL", Success)
              /\ state.holding) =>
            (~state'.holding /\ IsNone(state'.last_buy_price))
      ]_vars

(***************************************************************************)
(* C11: in every reachable state, after any /setbuy and /settp commands,   *)
(* buy_drop_pct > 0 and take_profit_pct > 0.                               *)
(***************************************************************************)
C11_ParametersPositive ==
    state.buy_drop_pct > 0 /\ state.take_profit_pct.n > 0

(***************************************************************************)
(* C12: with neither or both credential sources configured the process     *)
(* does not start: it never polls for commands and the monitor loop never  *)
(* runs.                                                                   *)
(***************************************************************************)
C12_BadCredentialsAreFatal ==
    (PRIVATE_KEY_B58 = PRIVATE_KEY_JSON) =>
        /\ main_pc # "polling"
        /\ monitor.pc \notin {"ready", "swap", "sleep"}

(***************************************************************************)
(* C13: every dry-run execution that returns Simulated has requested a     *)
(* quote (get_jupiter_quote) before returning.                             *)
(***************************************************************************)
C13_DryRunQuotesFirst ==
    \A i \in DOMAIN last.execs :
        last.execs[i].result = "Simulated" =>
            "get_jupiter_quote" \in StepsOf(last.execs[i])

(***************************************************************************)
(* C14: every BUY the monitor issues is for the configured trade size:     *)
(* STATE holds a trade_size and the amount passed to buy_with_usdc is it.  *)
(***************************************************************************)
C14_MonitorBuysTradeSize ==
    \A i \in DOMAIN last.execs :
        last.execs[i].caller = "monitor" =>
            /\ "trade_size" \in DOMAIN state
            /\ last.execs[i].usdc = state.trade_size

(***************************************************************************)
(* The monitor loop under asyncio's scheduling: a ready iteration runs,    *)
(* the awaited SDK swap returns or raises, the 60-second sleep ends.       *)
(***************************************************************************)
LiveSpec ==
    /\ Spec
    /\ WF_vars(monitor_tick)
    /\ WF_vars(monitor_resume)
    /\ WF_vars(monitor_wake)

(***************************************************************************)
(* C15: once the loop runs, every tick, also one whose fetch or buy fails, *)
(* is followed by another tick: after a tick the loop becomes ready again, *)
(* and a ready loop runs a tick.                                           *)
(***************************************************************************)
C15_LoopNeverStops ==
    /\ (last.op \in {"tick", "tick_resume"}) ~> (monitor.pc = "ready")
    /\ (monitor.pc = "ready") ~> (last.op = "tick")

\* a tick whose fetch failed has run and the loop is in its sleep
C15_Witness ==
    /\ last.op = "tick"
    /\ Val(last.feed).kind = "http_error"
    /\ monitor.pc = "sleep"

(***************************************************************************)
(* C16: a tick whose snapshot fetch fails (HTTP error, empty result,       *)
(* malformed price) issues no buy and no sell and leaves Position and the  *)
(* strategy parameters unchanged.                                          *)
(***************************************************************************)
FetchFails(resp) ==
    resp.kind \in {"http_error", "empty"} \/ IsNone(resp.current_price)

C16_FailedFetchSkipsCycle ==
    [][(last'.op = "tick" /\ FetchFails(Val(last'.feed))) =>
          /\ last'.execs = <<>>
          /\ ~last'.opened /\ ~last'.sell_issued
          /\ state' = state
      ]_vars

\* a tick got a record without a price while a position was open
C16_Witness ==
    /\ last.op = "tick"
    /\ Val(last.feed).kind = "ok" /\ IsNone(Val(last.feed).current_price)
    /\ state.holding
    /\ last.execs = <<>>

(***************************************************************************)
(* C17: one step runs at most one execution, and within it the quote is    *)
(* requested at most twice and the swap-build, SDK swap, decoding and      *)
(* deserialisation/signing steps at most once each.                        *)
(***************************************************************************)
Count(seq, x) == Cardinality({i \in DOMAIN seq : seq[i] = x})

C17_NoRetriesInsideExecution ==
    /\ Len(last.execs) <= 1
    /\ \A i \in DOMAIN last.execs :
          /\ Count(last.execs[i].steps, "get_jupiter_quote") <= 2
          /\ \A st \in SignerSteps : Count(last.execs[i].steps, st) <= 1

\* the swap-build request failed and the execution ended there
C17_Witness ==
    /\ last.execs # <<>>
    /\ last.execs[1].steps = <<"get_jupiter_quote", "request_jupiter_swap">>
    /\ last.execs[1].result = "Failed"

(***************************************************************************)
(* C18: with DRY_RUN false and the Jupiter SDK absent, buy_with_usdc never *)
(* returns normally and holding is never true.                             *)
(***************************************************************************)
C18_NoSdkNeverHolds ==
    (~DRY_RUN /\ ~HAVE_JUPITER_SDK) =>
        /\ ~state.holding
        /\ ~ExecEnded(last, "BUY", Success)

\* in that configuration the monitor's buy got as far as deserialisation
C18_Witness ==
    /\ ~DRY_RUN /\ ~HAVE_JUPITER_SDK
    /\ last.op = "tick"
    /\ last.execs # <<>>
    /\ "from_bytes" \in StepsOf(last.execs[1])
    /\ last.execs[1].result = "Failed"

(***************************************************************************)
(* C19: a tick that opens a position at a price p > 0 while                *)
(* take_profit_pct > 0 ends in Holding with last_buy_price = p.            *)
(***************************************************************************)
C19_NotOpenedAndClosedInOneTick ==
    (/\ last.op \in {"tick", "tick_resume"}
     /\ last.opened
     /\ Val(last.snap).price > 0
     /\ state.take_profit_pct.n > 0) =>
        state.holding /\ state.last_buy_price = Some(Val(last.snap).price)

(***************************************************************************)
(* C20: the monitor calls buy_with_usdc, and opens a position, only in a   *)
(* state where holding is false, and no step overwrites last_buy_price     *)
(* while the position stays open.                                          *)
(***************************************************************************)
C20_MonitorBuysOnlyWhenFlat ==
    [][/\ (\E i \in DOMAIN last'.execs : last'.execs[i].caller = "monitor")
              => ~state.holding
       /\ last'.opened => ~state.holding
       /\ (state.holding /\ state'.holding)
              => state'.last_buy_price = state.last_buy_price
      ]_vars

\* the drop condition was met while a position was open: no buy was issued
C20_Witness ==
    /\ IsTick(last)
    /\ state.holding /\ ~last.opened
    /\ Val(last.snap).pct24 <= -Abs(state.buy_drop_pct)
    /\ last.execs = <<>>

====
